---------------------------- MODULE Spec2Model ----------------------------
(***************************************************************************)
(* Model of gamevault-backend's DatabaseService                            *)
(* (src/src/modules/database/database.service.ts): backup and restore of   *)
(* the live database around a disconnect / reconnect of the TypeORM        *)
(* DataSource; and, in a part of its own further down, of its UsersService *)
(* (registration, login, update and the ownership check).                  *)
(*                                                                         *)
(* Granularity.  The service is asynchronous JavaScript: code runs to      *)
(* completion between two awaits on I/O, and other calls interleave only   *)
(* there.  One action of the model is one such run: the entry of a call up *)
(* to dataSource.destroy(), the continuation after destroy() up to the     *)
(* next external process or to dataSource.initialize(), the continuation   *)
(* after each external process (pg_dump, dropdb, createdb, pg_restore),    *)
(* the continuation after initialize() and after runMigrations().  The     *)
(* synchronous fs calls (copyFileSync, writeFileSync, existsSync) happen   *)
(* inside the run that reaches them.                                       *)
(*                                                                         *)
(* Failure injection.  Every external process and every fs call either     *)
(* succeeds or fails; the choice is an input of the action (\E).  A failed *)
(* write or copy leaves its target as it was or cut short (Garbage).       *)
(***************************************************************************)
EXTENDS Integers, FiniteSets, Sequences, TLC

\* Number of distinct complete database contents the model tells apart.
MaxData == 2

Data == 1..MaxData

\* The concurrent callers (HTTP requests in flight) of the one DatabaseService.
Callers == {"c1", "c2"}

--------------------------------------------------------------------------
(* Contents of the stores.  A value is [fmt, data]: what kind of thing it  *)
(* is and which database content it carries.  pg_dump turns a database     *)
(* into a tar dump and pg_restore a tar dump into a database; a file copy  *)
(* keeps the bytes.                                                        *)

\* No file at the path / no database of that name.
Absent == [fmt |-> "none", data |-> 0]

\* A file cut short by a failed write, copy or dump.
Garbage == [fmt |-> "garbage", data |-> 0]

\* A PostgreSQL database holding content d; d = 0 is a database that was
\* created and not (completely) filled.
PgDb(d) == [fmt |-> "pgdb", data |-> d]

\* A tar-format dump (pg_dump -F t) of content d.
Tar(d) == [fmt |-> "tar", data |-> d]

\* An SQLite database file holding content d.
Sqlite(d) == [fmt |-> "sqlite", data |-> d]

Exists(f) == f.fmt # "none"

\* The size in bytes of a file: nothing, a file cut short, a whole dump
\* (the larger the more content it carries).
Size(f) ==
  CASE f.fmt = "none" -> 0
    [] f.fmt = "garbage" -> 1
    [] OTHER -> 2 + f.data

\* What pg_dump -F t writes for database db.
pgDump(db) == Tar(db.data)

\* A pg_restore that creates the schema and loads no rows.
pgRestoreSchemaOnly(dump) == PgDb(0)

\* What pg_restore -O -F t makes of an empty database, given a dump.
pgRestore(dump) == PgDb(dump.data)

\* file.buffer of an uploaded restore package for engine sys: a dump of some
\* content in that engine's format.
Uploads(sys) == {IF sys = "SQLITE" THEN Sqlite(d) ELSE Tar(d) : d \in Data}

\* configuration.DB.PASSWORD and the passwords a caller may send.
DBPassword == "secret"

Passwords == {"secret", "guess"}

\* configuration.DB.SYSTEM: the two known engines and an unknown value.
Systems == {"POSTGRESQL", "SQLITE", "MYSQL"}

--------------------------------------------------------------------------
VARIABLES
  system,          \* configuration.DB.SYSTEM
  inMemory,        \* configuration.TESTING.IN_MEMORY_DB
  isInitialized,   \* dataSource.isInitialized: the live connection is up
  live,            \* the live store: the PostgreSQL database, or
                   \* ${VOLUMES.SQLITEDB}/database.sqlite
  preRestoreFile,  \* /tmp/gamevault_database_pre_restore.db
  restoreFile,     \* /tmp/gamevault_database_restore.db
  call,            \* per caller: the backup/restore call it has in flight
  userRepository,  \* the rows of the gamevault_user table; the id is the index
  accountActivationDisabled,  \* configuration.SERVER.ACCOUNT_ACTIVATION_DISABLED
  authenticationDisabled,     \* configuration.TESTING.AUTHENTICATION_DISABLED
  userCall         \* the last call made to UsersService and its outcome

userVars ==
  <<userRepository, accountActivationDisabled, authenticationDisabled, userCall>>

vars ==
  <<system, inMemory, isInitialized, live, preRestoreFile, restoreFile, call,
    userRepository, accountActivationDisabled, authenticationDisabled, userCall>>

\* No call has been made to UsersService yet.
NoUserCall ==
  [ op |-> "none", id |-> 0, username |-> "", email |-> "", password |-> "",
    activated |-> "", role |-> "", admin |-> FALSE, outcome |-> "none" ]

\* A caller with no call in flight.  The fields after `result` record what
\* the call did, as a mock of the collaborators would count it.
Idle ==
  [ op |-> "none", pc |-> "idle", password |-> "", file |-> Absent,
    proc |-> "none", phase |-> "none",
    backupFile |-> Absent, backupPromise |-> "none", stream |-> Absent,
    length |-> 0,
    result |-> "pending",
    disconnects |-> 0, connects |-> 0, migrations |-> 0,
    staged |-> FALSE, liveBefore |-> Absent,
    snapshot |-> "none", failedAt |-> "none", rollback |-> "none" ]

\* The snapshot an earlier run of the server may have left in /tmp.
StaleSnapshot(sys) ==
  IF sys = "POSTGRESQL" THEN Tar(1) ELSE IF sys = "SQLITE" THEN Sqlite(1) ELSE Absent

Init ==
  /\ system \in Systems
  /\ inMemory \in BOOLEAN
  /\ isInitialized = TRUE
  /\ live \in CASE system = "POSTGRESQL" -> {PgDb(1)}
               [] system = "SQLITE" -> {Absent, Sqlite(1)}
               [] OTHER -> {PgDb(1)}
  /\ preRestoreFile \in {Absent, StaleSnapshot(system)}
  /\ restoreFile = Absent
  /\ call = [c \in Callers |-> Idle]
  /\ userRepository = <<>>
  /\ accountActivationDisabled = FALSE
  /\ authenticationDisabled = FALSE
  /\ userCall = NoUserCall

--------------------------------------------------------------------------
(* A run of code is a function from the state it starts in to the state it *)
(* ends in.  S is that state as seen by caller c's call: the connection    *)
(* flag, the three stores and the call's own record r.                     *)

Cur(c) ==
  [ init |-> isInitialized, live |-> live, pre |-> preRestoreFile,
    stage |-> restoreFile, r |-> call[c] ]

Commit(c, S) ==
  /\ isInitialized' = S.init
  /\ live' = S.live
  /\ preRestoreFile' = S.pre
  /\ restoreFile' = S.stage
  /\ call' = [call EXCEPT ![c] = S.r]
  /\ UNCHANGED <<system, inMemory>>
  /\ UNCHANGED userVars

\* An exception that leaves backup()/restore(): the call's promise rejects.
Throw(S, error) == [S EXCEPT !.r.pc = "done", !.r.result = error]

\* The call has got past destroy(): it took the live connection down.
HasDisconnected(r) ==
  /\ r.disconnects > 0
  /\ r.pc \notin {"idle", "disconnecting"}
  /\ r.result # "CannotExecuteNotConnectedError"

\* A check that lets every password through.
ValidatePasswordAlwaysPasses(password) == TRUE

\* validateDatabasePassword: TRUE when it returns, FALSE when it throws
\* UnauthorizedException.
validateDatabasePassword(password) == password = DBPassword

\* disconnectDatabase, up to the await: dataSource.destroy() throws when the
\* DataSource is not initialized, else starts closing the driver.
disconnectDatabase(S) ==
  LET S1 == [S EXCEPT !.r.disconnects = @ + 1] IN
  IF ~S1.init THEN Throw(S1, "CannotExecuteNotConnectedError")
  ELSE [S1 EXCEPT !.r.pc = "disconnecting"]

\* connectDatabase, up to the await: dataSource.initialize() throws when the
\* DataSource is already initialized, else starts connecting.
connectDatabase(S) ==
  LET S1 == [S EXCEPT !.r.connects = @ + 1] IN
  IF S1.init THEN Throw(S1, "CannotConnectAlreadyConnectedError")
  ELSE [S1 EXCEPT !.r.pc = "connecting"]

\* migrateDatabase, up to the await on dataSource.runMigrations().
migrateDatabase(S) == [S EXCEPT !.r.pc = "migrating", !.r.migrations = @ + 1]

\* this.execPromise(cmd): the external process runs; the call waits for it.
execPromise(S, cmd, phase) == [S EXCEPT !.r.proc = cmd, !.r.phase = phase]

\* The two checks in the other order: the password first.
EnterPasswordFirst(S) ==
  IF ~validateDatabasePassword(S.r.password)
  THEN Throw(S, "UnauthorizedException")
  ELSE IF inMemory THEN Throw(S, "NotAcceptableException")
       ELSE disconnectDatabase(S)

\* The lines of backup() and restore() before the first await.
Enter(S) ==
  IF inMemory THEN Throw(S, "NotAcceptableException")
  ELSE IF ~validateDatabasePassword(S.r.password)
       THEN Throw(S, "UnauthorizedException")
       ELSE disconnectDatabase(S)

\* backup(password), entered by caller c.
backup(c) ==
  /\ call[c].pc = "idle"
  /\ \E password \in Passwords :
       Commit(c, Enter([Cur(c) EXCEPT !.r.op = "backup", !.r.password = password,
                                      !.r.liveBefore = live]))

\* restore(file, password), entered by caller c.
restore(c) ==
  /\ call[c].pc = "idle"
  /\ \E password \in Passwords, file \in Uploads(system) :
       Commit(c, Enter([Cur(c) EXCEPT !.r.op = "restore", !.r.password = password,
                                      !.r.file = file, !.r.liveBefore = live]))

--------------------------------------------------------------------------
(* Backup strategies.                                                      *)

\* `return backupFile` in backup(): the call settles as the strategy's
\* promise did.  A rejected promise carries the name of its error.
ReturnBackupFile(S) ==
  IF S.r.backupPromise = "pending" THEN [S EXCEPT !.r.pc = "returning"]
  ELSE IF S.r.backupPromise = "resolved"
       THEN [S EXCEPT !.r.pc = "done", !.r.result = "returned"]
       ELSE Throw(S, S.r.backupPromise)

\* backupPostgresqlDatabase(generateBackupFilepath()), up to its await:
\* pg_dump is started and the promise is handed back unsettled.
backupPostgresqlDatabase(S) ==
  [execPromise(S, "pg_dump", "backup") EXCEPT !.r.backupPromise = "pending"]

\* statSync(backupFilePath).size
statSync(f) == Size(f)

\* new StreamableFile(createReadStream(backupFilePath), {length, ...}) over
\* the file the strategy has just written at the call's backup path.
streamableFile(S, f) ==
  [S EXCEPT !.r.backupFile = f, !.r.stream = f, !.r.length = statSync(f),
            !.r.backupPromise = "resolved"]

\* A strategy that logs a failed pg_dump and streams whatever file there is.
DumpFailureIgnored(S, ok, partial) ==
  LET S1 == [S EXCEPT !.r.proc = "none", !.r.phase = "none"] IN
  IF ok
  THEN streamableFile(S1, pgDump(S.live))
  ELSE [streamableFile(S1, IF partial THEN Garbage ELSE S.r.backupFile)
          EXCEPT !.r.failedAt = "pg_dump"]

\* The rest of backupPostgresqlDatabase once pg_dump has exited: the stream
\* over the file with the size statSync reports, or the catch block's
\* InternalServerErrorException.
backupPostgresqlDatabaseExit(S, ok, partial) ==
  LET S1 == [S EXCEPT !.r.proc = "none", !.r.phase = "none"] IN
  IF ok
  THEN streamableFile(S1, pgDump(S.live))
  ELSE [S1 EXCEPT !.r.backupFile = IF partial THEN Garbage ELSE @,
                  !.r.failedAt = "pg_dump",
                  !.r.backupPromise = "InternalServerErrorException"]

\* backupSqliteDatabase(generateBackupFilepath()): no await inside, so it
\* runs whole; a copyFileSync failure rejects the promise with the fs error
\* as thrown (class Error).
backupSqliteDatabase(S, ok, partial) ==
  IF ok
  THEN streamableFile(S, S.live)
  ELSE [S EXCEPT !.r.backupFile = IF partial THEN Garbage ELSE @,
                 !.r.failedAt = "copy",
                 !.r.backupPromise = "Error"]

\* backup() from the switch on: the strategy's promise is taken, not
\* awaited, and connectDatabase() is called in the same run.
backupDispatch(S, ok, partial) ==
  CASE system = "POSTGRESQL" -> connectDatabase(backupPostgresqlDatabase(S))
    [] system = "SQLITE" -> connectDatabase(backupSqliteDatabase(S, ok, partial))
    [] OTHER -> Throw(S, "InternalServerErrorException")

--------------------------------------------------------------------------
(* Restore strategies.                                                     *)

\* A restore that runs the migrations straight after the engine routine.
MigrateWithoutConnecting(S) ==
  migrateDatabase([S EXCEPT !.r.proc = "none", !.r.phase = "none"])

\* restore() after `await this.restore...Database(file)` returned normally.
restoreReturned(S) ==
  connectDatabase([S EXCEPT !.r.proc = "none", !.r.phase = "none"])

\* A rollback that reads the uploaded dump's staging file instead.
RollbackFromStagingFile(S) == S.stage

\* The file a rollback restores from.
RollbackSource(S) == S.pre

\* restorePostgresqlDatabase, the outer catch block: with a file at the
\* pre-restore path the rollback starts with dropdb, else nothing is done.
restorePostgresqlCatch(S, at) ==
  LET S1 == [S EXCEPT !.r.failedAt = at] IN
  IF Exists(S1.pre)
  THEN execPromise(S1, "dropdb", "rollback")
  ELSE restoreReturned([S1 EXCEPT !.r.rollback = "noop"])

\* restorePostgresqlDatabase, up to its first await: the pre-restore
\* pg_dump is started.
restorePostgresqlDatabase(S) ==
  [execPromise(S, "pg_dump", "snapshot") EXCEPT !.r.pc = "engine"]

\* restorePostgresqlDatabase after the external process it awaited has
\* exited with ok; wr is whether writeFileSync of the staging file works.
restorePostgresqlDatabaseExit(S, ok, wr, partial) ==
  LET phase == S.r.phase
      proc == S.r.proc
  IN
  CASE phase = "snapshot" ->
         IF ~ok
         THEN restorePostgresqlCatch(
                [S EXCEPT !.pre = IF partial THEN Garbage ELSE @,
                          !.r.snapshot = "failed"], "snapshot")
         ELSE LET S1 == [S EXCEPT !.pre = pgDump(S.live), !.r.snapshot = "ok"] IN
              IF wr
              THEN execPromise([S1 EXCEPT !.stage = S.r.file, !.r.staged = TRUE],
                               "dropdb", "apply")
              ELSE restorePostgresqlCatch(S1, "stage")
    [] phase = "apply" /\ proc = "dropdb" ->
         IF ok THEN execPromise([S EXCEPT !.live = Absent], "createdb", "apply")
         ELSE restorePostgresqlCatch(S, "dropdb")
    [] phase = "apply" /\ proc = "createdb" ->
         IF ok THEN execPromise([S EXCEPT !.live = PgDb(0)], "pg_restore", "apply")
         ELSE restorePostgresqlCatch(S, "createdb")
    [] phase = "apply" /\ proc = "pg_restore" ->
         IF ok THEN restoreReturned([S EXCEPT !.live = pgRestore(S.stage)])
         ELSE restorePostgresqlCatch(S, "pg_restore")
    [] phase = "rollback" /\ ~ok ->
         Throw([S EXCEPT !.r.rollback = "failed", !.r.proc = "none",
                         !.r.phase = "none"],
               "InternalServerErrorException")
    [] phase = "rollback" /\ ok /\ proc = "dropdb" ->
         execPromise([S EXCEPT !.live = Absent], "createdb", "rollback")
    [] phase = "rollback" /\ ok /\ proc = "createdb" ->
         execPromise([S EXCEPT !.live = PgDb(0)], "pg_restore", "rollback")
    [] phase = "rollback" /\ ok /\ proc = "pg_restore" ->
         restoreReturned([S EXCEPT !.live = pgRestore(RollbackSource(S)),
                                   !.r.rollback = "ok"])

\* restoreSqliteDatabase, the catch block: a file at the pre-restore path is
\* copied over the live file; a failing copy throws the fs error as it is.
restoreSqliteCatch(S, at, backOk, partial) ==
  LET S1 == [S EXCEPT !.r.failedAt = at] IN
  IF ~Exists(S1.pre) THEN restoreReturned([S1 EXCEPT !.r.rollback = "noop"])
  ELSE IF backOk
       THEN restoreReturned([S1 EXCEPT !.live = RollbackSource(S1),
                                       !.r.rollback = "ok"])
       ELSE Throw([S1 EXCEPT !.live = IF partial THEN Garbage ELSE @,
                             !.r.rollback = "failed"], "Error")

\* restoreSqliteDatabase: synchronous fs calls only, so it runs whole.
\* copyOk, writeOk and backOk are the outcomes of its three fs calls.
restoreSqliteDatabase(S, copyOk, writeOk, backOk, partial) ==
  LET S0 == [S EXCEPT !.r.pc = "engine"] IN
  IF Exists(S0.live) /\ ~copyOk
  THEN restoreSqliteCatch(
         [S0 EXCEPT !.pre = IF partial THEN Garbage ELSE @, !.r.snapshot = "failed"],
         "snapshot", backOk, partial)
  ELSE LET S1 == IF Exists(S0.live)
                 THEN [S0 EXCEPT !.pre = S0.live, !.r.snapshot = "ok"]
                 ELSE [S0 EXCEPT !.r.snapshot = "skipped"]
       IN
       IF writeOk
       THEN restoreReturned([S1 EXCEPT !.live = S.r.file])
       ELSE restoreSqliteCatch([S1 EXCEPT !.live = IF partial THEN Garbage ELSE @],
                               "write", backOk, partial)

\* restore() from the switch on.
restoreDispatch(S, copyOk, writeOk, backOk, partial) ==
  CASE system = "POSTGRESQL" -> restorePostgresqlDatabase(S)
    [] system = "SQLITE" -> restoreSqliteDatabase(S, copyOk, writeOk, backOk, partial)
    [] OTHER -> Throw(S, "InternalServerErrorException")

--------------------------------------------------------------------------
(* The runs that follow an await.                                          *)

\* Whether the external process the call waits for can exit with status 0:
\* pg_dump needs the database, createdb needs the name to be free,
\* pg_restore needs the database and a tar dump to read.
CanSucceed(S) ==
  CASE S.r.proc = "pg_dump" -> S.live.fmt = "pgdb"
    [] S.r.proc = "createdb" -> ~Exists(S.live)
    [] S.r.proc = "pg_restore" ->
         /\ S.live.fmt = "pgdb"
         /\ (IF S.r.phase = "apply" THEN S.stage ELSE RollbackSource(S)).fmt = "tar"
    [] OTHER -> TRUE

\* dataSource.destroy() has completed: the connection is down and backup()
\* or restore() goes on to its switch.
DestroyDone(c) ==
  /\ call[c].pc = "disconnecting"
  /\ LET S == [Cur(c) EXCEPT !.init = FALSE] IN
     \E ok, writeOk, backOk, partial \in BOOLEAN :
       /\ ok => Exists(live)
       /\ Commit(c, IF call[c].op = "backup"
                    THEN backupDispatch(S, ok, partial)
                    ELSE restoreDispatch(S, ok, writeOk, backOk, partial))

\* The external process of the call exits, with status 0 (ok) or not.
ProcExit(c) ==
  /\ call[c].proc # "none"
  /\ \E ok, wr, partial \in BOOLEAN :
       /\ ok => CanSucceed(Cur(c))
       /\ Commit(c, IF call[c].phase = "backup"
                    THEN LET S == backupPostgresqlDatabaseExit(Cur(c), ok, partial) IN
                         IF S.r.pc = "returning" THEN ReturnBackupFile(S) ELSE S
                    ELSE restorePostgresqlDatabaseExit(Cur(c), ok, wr, partial))

\* dataSource.initialize() has completed: the connection is up; backup()
\* returns the strategy's promise, restore() goes on to the migrations.
InitializeDone(c) ==
  /\ call[c].pc = "connecting"
  /\ LET S == [Cur(c) EXCEPT !.init = TRUE] IN
     Commit(c, IF call[c].op = "backup" THEN ReturnBackupFile(S)
               ELSE migrateDatabase(S))

\* dataSource.runMigrations() has completed: restore() returns.
MigrationsDone(c) ==
  /\ call[c].pc = "migrating"
  /\ Commit(c, [Cur(c) EXCEPT !.r.pc = "done", !.r.result = "returned"])

\* The caller has seen the outcome of its call and may issue another one.
Forget(c) ==
  /\ call[c].pc = "done"
  /\ call[c].proc = "none"
  /\ call' = [call EXCEPT ![c] = Idle]
  /\ UNCHANGED <<system, inMemory, isInitialized, live, preRestoreFile, restoreFile>>
  /\ UNCHANGED userVars

Next ==
  \E c \in Callers :
    \/ backup(c)
    \/ restore(c)
    \/ DestroyDone(c)
    \/ ProcExit(c)
    \/ InitializeDone(c)
    \/ MigrationsDone(c)
    \/ Forget(c)

\* The service as it is: nothing keeps two calls from overlapping.
Spec == Init /\ [][Next]_vars

\* No caller has a call under way or an outcome not yet taken.
AllIdle == \A d \in Callers : call[d].pc = "idle"

\* Calls issued one at a time, as section 5 of the specification requires of
\* the callers: a call starts only when every earlier one is over.
NextSeq ==
  \E c \in Callers :
    \/ backup(c) /\ AllIdle
    \/ restore(c) /\ AllIdle
    \/ DestroyDone(c)
    \/ ProcExit(c)
    \/ InitializeDone(c)
    \/ MigrationsDone(c)
    \/ Forget(c)

SpecSeq == Init /\ [][NextSeq]_vars

--------------------------------------------------------------------------
(* UsersService (src/unnamed/part_001) over the table of GamevaultUser     *)
(* entities (src/unnamed/part_000).  One action is one call of a public    *)
(* method, or the admin set-up of the bootstrap, run with no other call in *)
(* between; a call is made once the outcome of the one before has been     *)
(* taken.  User names are drawn from a set that holds two spellings of one *)
(* name; no name holds a LIKE wildcard.  Users have no progresses, so the  *)
(* condition on progresses in the two lookups lets every user through.  A  *)
(* row keeps its place for good: delete() is a soft delete.                *)

\* How many users the table holds at most.
MaxUsers == 2

Ids == 1..MaxUsers
Usernames == {"Amy", "amy", "bob"}
Emails == {"a@x", "b@x"}
Roles == {"USER", "ADMIN"}

\* The password every user registers with, and the ones tried at login.
UserPassword == "pw"
LoginPasswords == {"pw", "wrong"}

\* A dto field, or an argument, that was not given.
Undefined == "undefined"

\* configuration.SERVER.ADMIN_USERNAME
ADMIN_USERNAME == "Amy"

\* String.prototype.toLowerCase on the names and addresses above.
toLowerCase(s) == IF s = "Amy" THEN "amy" ELSE s

\* typeorm's ILike(pattern) applied to a column value.
ILike(value, pattern) == toLowerCase(value) = toLowerCase(pattern)

\* bcrypt: the hash is not the password, and compareSync tells whether a
\* password is the one a hash was made of.
hashSync(password) == <<"bcrypt", password>>
compareSync(password, hash) == hash = hashSync(password)

\* The ids in use, and the row of one.
Stored == DOMAIN userRepository
Row(id) == userRepository[id]

\* new GamevaultUser(): the column defaults of the entity.
GamevaultUser ==
  [ username |-> Undefined, email |-> Undefined, password |-> hashSync(""),
    activated |-> FALSE, role |-> "USER", deleted |-> FALSE ]

\* The unique indexes on username and email, which compare exactly: TRUE
\* when the table accepts user as the row of id.
UniqueColumns(id, user) ==
  \A j \in Stored \ {id} :
    Row(j).username # user.username /\ Row(j).email # user.email

\* getByIdOrFail: TRUE when it returns the row, FALSE when it throws
\* NotFoundException.
getByIdOrFail(id, inludeDeletedUsers) ==
  id \in Stored /\ (inludeDeletedUsers \/ ~Row(id).deleted)

\* throwIfAlreadyExists: one findOne whose where clause carries every
\* field that was given, so it finds a row that matches all of them.
throwIfAlreadyExists(username, email) ==
  IF username = Undefined /\ email = Undefined THEN "BadRequestException"
  ELSE IF \E id \in Stored :
            /\ ~Row(id).deleted
            /\ username # Undefined => ILike(Row(id).username, username)
            /\ email # Undefined => ILike(Row(id).email, email)
       THEN "ForbiddenException"
       ELSE "ok"

\* The outcome of the last call has been taken: the next call may be made.
UsersIdle == userCall = NoUserCall

\* What every call to UsersService leaves alone.
UsersFrame ==
  UNCHANGED <<system, inMemory, isInitialized, live, preRestoreFile,
              restoreFile, call, accountActivationDisabled,
              authenticationDisabled>>

\* A call is over: its arguments and outcome are on record.
Ended(op, id, username, email, admin, outcome) ==
  /\ userCall' = [ NoUserCall EXCEPT
                     !.op = op, !.id = id, !.username = username,
                     !.email = email, !.admin = admin, !.outcome = outcome ]
  /\ UsersFrame

\* A call is over and changed nothing in the table.
Answered(op, id, username, email, admin, outcome) ==
  /\ Ended(op, id, username, email, admin, outcome)
  /\ UNCHANGED userRepository

\* The user register(dto) builds before saving it.
registeredUser(username, email) ==
  [ GamevaultUser EXCEPT
      !.username = username, !.email = email,
      !.password = hashSync(UserPassword),
      !.activated = accountActivationDisabled \/ username = ADMIN_USERNAME,
      !.role = IF username = ADMIN_USERNAME THEN "ADMIN" ELSE @ ]

\* register(dto)
register ==
  /\ UsersIdle
  /\ \E username \in Usernames, email \in Emails :
    LET exists == throwIfAlreadyExists(username, email)
        user == registeredUser(username, email)
        id == Len(userRepository) + 1
    IN
    IF exists # "ok"
    THEN Answered("register", 0, username, email, FALSE, exists)
    ELSE IF ~UniqueColumns(id, user)
         THEN Answered("register", 0, username, email, FALSE, "QueryFailedError")
         ELSE /\ id <= MaxUsers
              /\ userRepository' = Append(userRepository, user)
              /\ Ended("register", id, username, email, FALSE, "returned")

\* login, with the test of the activated flag left out.
loginChecksWithoutActivation(user, password) ==
  IF ~compareSync(password, user.password) THEN "UnauthorizedException"
  ELSE IF user.deleted THEN "NotFoundException"
  ELSE "returned"

\* login, after findOneOrFail has returned user.
loginChecks(user, password) ==
  IF ~compareSync(password, user.password) THEN "UnauthorizedException"
  ELSE IF user.deleted THEN "NotFoundException"
  ELSE IF ~user.activated /\ user.role # "ADMIN" THEN "ForbiddenException"
  ELSE "returned"

\* login is over: what it was called with, the row it found and its outcome.
loginAnswered(id, username, password, outcome) ==
  /\ userCall' = [ NoUserCall EXCEPT
                     !.op = "login", !.id = id, !.username = username,
                     !.password = password, !.outcome = outcome ]
  /\ UsersFrame
  /\ UNCHANGED userRepository

\* login(username, password): findOneOrFail takes a row whose username
\* matches, deleted or not; which one, if there are several, is up to the
\* database.
login ==
  /\ UsersIdle
  /\ \E username \in Usernames, password \in LoginPasswords :
    LET found == {id \in Stored : ILike(Row(id).username, username)} IN
    IF found = {}
    THEN loginAnswered(0, username, password, "UnauthorizedException")
    ELSE \E id \in found :
           loginAnswered(id, username, password, loginChecks(Row(id), password))

\* The dtos update is called with: each field given or not.  A new
\* password is left out: every user's password is UserPassword.
UpdateDtos ==
  [ username : Usernames \cup {Undefined},
    email : Emails \cup {Undefined},
    activated : {"true", "false", Undefined},
    role : Roles \cup {Undefined} ]

\* update, the checks made before a new username or email is taken: the
\* first exception thrown, or "ok".
updateChecks(user, dto) ==
  LET byUsername ==
        IF /\ dto.username # Undefined /\ dto.username # user.username
           /\ toLowerCase(dto.username) # toLowerCase(user.username)
        THEN throwIfAlreadyExists(dto.username, Undefined)
        ELSE "ok"
      byEmail ==
        IF /\ dto.email # Undefined /\ dto.email # user.email
           /\ toLowerCase(dto.email) # toLowerCase(user.email)
        THEN throwIfAlreadyExists(Undefined, dto.email)
        ELSE "ok"
  IN IF byUsername # "ok" THEN byUsername ELSE byEmail

\* An update that takes activated and role from the dto whoever calls.
updatedUserWhoeverCalls(user, dto, admin) ==
  [ user EXCEPT
      !.username = IF dto.username # Undefined THEN dto.username ELSE @,
      !.email = IF dto.email # Undefined THEN dto.email ELSE @,
      !.activated = IF dto.activated # Undefined
                    THEN dto.activated = "true" ELSE @,
      !.role = IF dto.role # Undefined THEN dto.role ELSE @ ]

\* update, the user as it is handed to save().
updatedUser(user, dto, admin) ==
  [ user EXCEPT
      !.username = IF dto.username # Undefined THEN dto.username ELSE @,
      !.email = IF dto.email # Undefined THEN dto.email ELSE @,
      !.activated = IF admin /\ dto.activated # Undefined
                    THEN dto.activated = "true" ELSE @,
      !.role = IF admin /\ dto.role # Undefined THEN dto.role ELSE @ ]

\* update is over: the id, the admin flag, the activated and role fields of
\* the dto it was called with, and its outcome.
updateEnded(op, id, dto, admin, outcome) ==
  /\ userCall' = [ NoUserCall EXCEPT
                     !.op = op, !.id = id, !.activated = dto.activated,
                     !.role = dto.role, !.admin = admin, !.outcome = outcome ]
  /\ UsersFrame

\* update(id, dto, admin), called as op.
updateCall(op, id, dto, admin) ==
  IF ~getByIdOrFail(id, FALSE)
  THEN updateEnded(op, id, dto, admin, "NotFoundException")
       /\ UNCHANGED userRepository
  ELSE LET checks == updateChecks(Row(id), dto)
           user == updatedUser(Row(id), dto, admin)
       IN
       IF checks # "ok"
       THEN updateEnded(op, id, dto, admin, checks)
            /\ UNCHANGED userRepository
       ELSE IF ~UniqueColumns(id, user)
            THEN updateEnded(op, id, dto, admin, "QueryFailedError")
                 /\ UNCHANGED userRepository
            ELSE /\ userRepository' = [userRepository EXCEPT ![id] = user]
                 /\ updateEnded(op, id, dto, admin, "returned")

\* update(id, dto, admin, executorUsername)
update ==
  /\ UsersIdle
  /\ \E id \in Ids, dto \in UpdateDtos, admin \in BOOLEAN :
       updateCall("update", id, dto, admin)

\* The dto setAdmin passes to update; ADMIN_PASSWORD is not configured.
AdminDto ==
  [ username |-> Undefined, email |-> Undefined, activated |-> "true",
    role |-> "ADMIN" ]

\* setAdmin, run by onApplicationBootstrap: the user whose name matches
\* ADMIN_USERNAME, if there is one, is made an activated administrator;
\* exceptions are logged.
setAdmin ==
  LET found == {id \in Stored : /\ ILike(Row(id).username, ADMIN_USERNAME)
                                /\ ~Row(id).deleted}
  IN
  /\ UsersIdle
  /\ IF found = {}
     THEN Answered("setAdmin", 0, "", "", TRUE, "NotFoundException")
     ELSE \E id \in found : updateCall("setAdmin", id, AdminDto, TRUE)

\* delete(id): softRemove.
delete ==
  /\ UsersIdle
  /\ \E id \in Ids :
    IF ~getByIdOrFail(id, FALSE)
    THEN Answered("delete", id, "", "", FALSE, "NotFoundException")
    ELSE /\ userRepository' = [userRepository EXCEPT ![id].deleted = TRUE]
         /\ Ended("delete", id, "", "", FALSE, "returned")

\* recover(id)
recover ==
  /\ UsersIdle
  /\ \E id \in Ids :
    IF ~getByIdOrFail(id, TRUE)
    THEN Answered("recover", id, "", "", FALSE, "NotFoundException")
    ELSE /\ userRepository' = [userRepository EXCEPT ![id].deleted = FALSE]
         /\ Ended("recover", id, "", "", FALSE, "returned")

\* checkIfUsernameMatchesIdOrIsAdmin(userId, username): "true" or the
\* exception thrown.
checkOutcome(userId, username) ==
  IF authenticationDisabled THEN "true"
  ELSE IF username = Undefined THEN "UnauthorizedException"
  ELSE IF ~getByIdOrFail(userId, FALSE) THEN "NotFoundException"
  ELSE IF Row(userId).role = "ADMIN" THEN "true"
  ELSE IF toLowerCase(Row(userId).username) # toLowerCase(username)
       THEN "ForbiddenException"
       ELSE "true"

checkIfUsernameMatchesIdOrIsAdmin ==
  /\ UsersIdle
  /\ \E userId \in Ids, username \in Usernames \cup {Undefined} :
       Answered("checkIfUsernameMatchesIdOrIsAdmin", userId, username, "",
                FALSE, checkOutcome(userId, username))

\* The caller has seen the outcome of its call.
ForgetUserCall ==
  /\ ~UsersIdle
  /\ userCall' = NoUserCall
  /\ UsersFrame
  /\ UNCHANGED userRepository

\* The server starts with an empty table; the database behind it is up and
\* no backup or restore is made.
InitUsers ==
  /\ system = "SQLITE"
  /\ inMemory = FALSE
  /\ isInitialized = TRUE
  /\ live = Sqlite(1)
  /\ preRestoreFile = Absent
  /\ restoreFile = Absent
  /\ call = [c \in Callers |-> Idle]
  /\ userRepository = <<>>
  /\ accountActivationDisabled \in BOOLEAN
  /\ authenticationDisabled \in BOOLEAN
  /\ userCall = NoUserCall

NextUsers ==
  \/ register
  \/ login
  \/ update
  \/ setAdmin
  \/ delete
  \/ recover
  \/ checkIfUsernameMatchesIdOrIsAdmin
  \/ ForgetUserCall

SpecUsers == InitUsers /\ [][NextUsers]_vars

--------------------------------------------------------------------------
(* Properties.  Under SpecSeq a finished call (pc = "done") is the only     *)
(* call there is, so the state it is seen in is the state it left behind.  *)

\* The steps of APPLY_RESTORE: dropdb, createdb and pg_restore of the
\* uploaded dump (Postgres), the overwrite of the live file (SQLite).
ApplySteps == {"dropdb", "createdb", "pg_restore", "write"}

\* Caller c's call is a restore that is over and had taken the connection down.
RestoreOver(c) ==
  call[c].op = "restore" /\ call[c].pc = "done" /\ HasDisconnected(call[c])

\* Caller c's call is a backup that is over and had taken the connection down.
BackupOver(c) ==
  call[c].op = "backup" /\ call[c].pc = "done" /\ HasDisconnected(call[c])

\* C1: every restore that disconnected the live connection has invoked
\* connect by the time it returns or raises, whatever the engine routine
\* did, and leaves the connection up.
C1_RestoreAlwaysReconnects ==
  \A c \in Callers :
    RestoreOver(c) => call[c].connects = 1 /\ isInitialized

\* C2: every backup that disconnected the live connection has invoked
\* connect exactly once by the time it returns or raises, also when the
\* engine dispatch throws, and leaves the connection up.
C2_BackupAlwaysReconnects ==
  \A c \in Callers :
    BackupOver(c) => call[c].connects = 1 /\ isInitialized

\* C3: a restore whose apply step failed and whose rollback succeeded ends
\* in an error reported to the caller; it does not return normally.
C3_RolledBackRestoreReportsError ==
  \A c \in Callers :
    (RestoreOver(c) /\ call[c].failedAt \in ApplySteps /\ call[c].rollback = "ok")
      => call[c].result # "returned"

\* The case of C4: the snapshot step of this restore produced a snapshot,
\* an apply step failed and every rollback step succeeded.
RolledBack(c) ==
  /\ RestoreOver(c)
  /\ call[c].snapshot = "ok"
  /\ call[c].failedAt \in ApplySteps
  /\ call[c].rollback = "ok"

\* C4: rollback fidelity.  After a restore whose apply step failed behind a
\* snapshot of its own and whose rollback succeeded, the live database is
\* what it was immediately before the call.
C4_RollbackFidelity ==
  \A c \in Callers : RolledBack(c) => live = call[c].liveBefore

\* C4's case, with an upload that differs from the live content, so that a
\* restore that had stuck would show.
C4_Witness ==
  \E c \in Callers :
    /\ RolledBack(c)
    /\ call[c].file.data # call[c].liveBefore.data
    /\ Exists(call[c].liveBefore)

\* C5: a restore whose rollback failed reports InternalServerErrorException
\* (the fatal kind), on both engines.
C5_FailedRollbackIsInternalError ==
  \A c \in Callers :
    (call[c].op = "restore" /\ call[c].pc = "done" /\ call[c].rollback = "failed")
      => call[c].result = "InternalServerErrorException"

\* Caller c's call is between its disconnect and its reconnect, or its
\* engine strategy is still at work.
Operating(c) ==
  call[c].pc \in {"engine", "connecting"} \/ call[c].proc # "none"

\* C6: mutual exclusion.  At most one call at a time is between its
\* disconnect and its reconnect or has its engine strategy running.
C6_MutualExclusion ==
  \A c, d \in Callers : (c # d /\ Operating(c)) => ~Operating(d)

\* C7: while the engine strategy of a call is at work (its external process
\* is running), that call has not invoked connect and the connection is
\* down.
C7_DisconnectedWhileStrategyRuns ==
  \A c \in Callers :
    call[c].proc # "none" => call[c].connects = 0 /\ ~isInitialized

\* C8: with in-memory mode off, a call with a password other than the
\* configured one ends at once with UnauthorizedException and changes
\* nothing: no disconnect, connect or migration is invoked, no external
\* process is started and no store (live database, pre-restore snapshot,
\* staging file, backup file) is touched.
C8_WrongPasswordNoSideEffects ==
  [][ \A c \in Callers :
        (/\ call[c].pc = "idle"
         /\ call'[c].pc # "idle"
         /\ ~inMemory
         /\ call'[c].password # DBPassword)
        => /\ call'[c].pc = "done"
           /\ call'[c].result = "UnauthorizedException"
           /\ call'[c].disconnects = 0
           /\ call'[c].connects = 0
           /\ call'[c].migrations = 0
           /\ call'[c].proc = "none"
           /\ call'[c].backupFile = Absent
           /\ UNCHANGED <<isInitialized, live, preRestoreFile, restoreFile>> ]_vars

\* C8's case: in-memory mode off, a restore turned away for its password.
C8_Witness ==
  \E c \in Callers :
    /\ ~inMemory
    /\ call[c].pc = "done"
    /\ call[c].op = "restore"
    /\ call[c].password # DBPassword
    /\ call[c].result = "UnauthorizedException"

\* C9: a restore that found no live database (snapshot step skipped) and
\* then failed does not roll back: the live store is not overwritten from
\* the pre-restore snapshot path.
C9_FreshInstallRollbackIsNoOp ==
  \A c \in Callers :
    (/\ call[c].op = "restore"
     /\ call[c].pc = "done"
     /\ call[c].snapshot = "skipped"
     /\ call[c].failedAt # "none")
      => call[c].rollback = "noop"

\* C10: a restore modifies the live store only after it has written the
\* uploaded bytes to the staging path.
C10_StagedBeforeLiveIsModified ==
  [][ \A c \in Callers :
        (call'[c].op = "restore" /\ call'[c] # call[c] /\ live' # live)
          => call'[c].staged ]_vars

\* What holds of a call once it has started the migrations, and of a
\* restore that has returned.
C13_StepOrderStates ==
  \A c \in Callers :
    /\ call[c].migrations > 0 =>
         /\ call[c].op = "restore"
         /\ call[c].disconnects = 1 /\ call[c].connects = 1
         /\ call[c].migrations = 1
         /\ call[c].snapshot # "none" /\ call[c].proc = "none"
    /\ call[c].pc = "migrating" => isInitialized
    /\ (RestoreOver(c) /\ call[c].result = "returned") =>
         /\ validateDatabasePassword(call[c].password)
         /\ call[c].migrations = 1

\* What each step of a call comes after.
C13_StepOrderSteps ==
  \A c \in Callers :
    /\ call'[c].disconnects > call[c].disconnects =>
         /\ validateDatabasePassword(call'[c].password)
         /\ call[c].connects = 0 /\ call[c].snapshot = "none"
    /\ (call'[c].op = "restore" /\ call'[c].snapshot # call[c].snapshot) =>
         /\ HasDisconnected(call'[c])
         /\ call[c].connects = 0
    /\ (call'[c].op = "restore" /\ call'[c].connects > call[c].connects) =>
         /\ HasDisconnected(call'[c])
         /\ call'[c].snapshot # "none" /\ call'[c].proc = "none"
         /\ call[c].migrations = 0
    /\ call'[c].migrations > call[c].migrations =>
         /\ call[c].op = "restore"
         /\ call[c].pc = "connecting"
         /\ isInitialized'

\* C13: a restore that completes has validated the password, then
\* disconnected, then run the engine's restore routine, then connected, then
\* run the migrations, each once.  Migrations are started only by a restore,
\* only when the connect of the same call has completed, and they never run
\* while the connection is down.
C13_RestoreStepOrder == []C13_StepOrderStates /\ [][C13_StepOrderSteps]_vars

C13_Witness ==
  \E c \in Callers :
    /\ RestoreOver(c) /\ call[c].result = "returned"
    /\ call[c].migrations = 1 /\ isInitialized

\* C14: with TESTING.IN_MEMORY_DB on, every backup and every restore, with
\* the right password or a wrong one and whatever DB.SYSTEM is, ends at once
\* with NotAcceptableException (the configuration error) and changes
\* nothing: no disconnect, connect or migration is invoked, no external
\* process is started and no file is written.
C14_InMemoryAlwaysRefused ==
  [][ \A c \in Callers :
        (/\ call[c].pc = "idle"
         /\ call'[c].pc # "idle"
         /\ inMemory)
        => /\ call'[c].pc = "done"
           /\ call'[c].result = "NotAcceptableException"
           /\ call'[c].disconnects = 0
           /\ call'[c].connects = 0
           /\ call'[c].migrations = 0
           /\ call'[c].proc = "none"
           /\ call'[c].backupFile = Absent
           /\ ~call'[c].staged
           /\ UNCHANGED <<isInitialized, live, preRestoreFile, restoreFile>> ]_vars

\* C14's case: in-memory mode on, a backup with the right password refused.
C14_Witness ==
  \E c \in Callers :
    /\ inMemory
    /\ call[c].pc = "done"
    /\ call[c].op = "backup"
    /\ call[c].password = DBPassword
    /\ call[c].result = "NotAcceptableException"

\* The errors a backup whose dump step failed can end with: the strategy's
\* own, or the one of a connect refused before the promise was returned.
DumpFailureErrors ==
  {"InternalServerErrorException", "Error", "CannotConnectAlreadyConnectedError"}

BackedUp(db) == IF system = "POSTGRESQL" THEN pgDump(db) ELSE db

\* C17: a backup returns the bytes BackedUp of the live database and leaves
\* the database as it was; a restore of those very bytes in which no step
\* failed leaves the live database with the content it had before.
C17_RoundTrip ==
  \A c \in Callers :
    /\ (BackupOver(c) /\ call[c].result = "returned") =>
         /\ call[c].stream = BackedUp(call[c].liveBefore)
         /\ live = call[c].liveBefore
    /\ (/\ RestoreOver(c) /\ call[c].result = "returned"
        /\ call[c].failedAt = "none"
        /\ call[c].file = BackedUp(call[c].liveBefore))
       => live = call[c].liveBefore

\* C17's case: a Postgres restore of the dump of the database as it stood
\* has gone through every step.
C17_Witness ==
  \E c \in Callers :
    /\ system = "POSTGRESQL"
    /\ RestoreOver(c) /\ call[c].result = "returned"
    /\ call[c].failedAt = "none" /\ call[c].snapshot = "ok"
    /\ call[c].file = BackedUp(call[c].liveBefore)
    /\ live.fmt = "pgdb"

\* C18: with in-memory mode off and DB.SYSTEM one of the two engines, a
\* backup called with the configured password, none of whose dump steps
\* failed, returns a stream, and the stream's declared length is the size on
\* disk of the file the strategy wrote in that call.
C18_ValidPasswordBackupSucceeds ==
  \A c \in Callers :
    (/\ call[c].op = "backup" /\ call[c].pc = "done"
     /\ ~inMemory /\ system \in {"POSTGRESQL", "SQLITE"}
     /\ call[c].password = DBPassword
     /\ call[c].failedAt = "none")
    => /\ call[c].result = "returned"
       /\ Exists(call[c].backupFile)
       /\ call[c].length = Size(call[c].backupFile)

\* The part of C18 about the length: what a backup returns is a stream over
\* the file it wrote, declared with that file's size.
C18_LengthIsFileSize ==
  \A c \in Callers :
    (call[c].op = "backup" /\ call[c].result = "returned") =>
      /\ Exists(call[c].backupFile)
      /\ call[c].stream = call[c].backupFile
      /\ call[c].length = Size(call[c].backupFile)

\* The live database that applying upload file makes: pg_restore of the
\* dump into the recreated database (Postgres), the file itself (SQLite).
Applied(file) == IF system = "POSTGRESQL" THEN pgRestore(file) ELSE file

\* C19: a restore that returns without an error leaves the uploaded package
\* as the live database.
C19_NormalReturnMeansUploadIsLive ==
  \A c \in Callers :
    (RestoreOver(c) /\ call[c].result = "returned") =>
      live = Applied(call[c].file)

\* C20: in a Postgres restore a dropdb, createdb or pg_restore, of the apply
\* path or of the rollback, runs only when the pre-restore pg_dump of the
\* same call succeeded; so the live database is never dropped, and never
\* replaced from a file found at the pre-restore path, after the call's own
\* snapshot step failed.
C20_DropOnlyAfterOwnSnapshot ==
  \A c \in Callers :
    (/\ call[c].op = "restore" /\ system = "POSTGRESQL"
     /\ call[c].proc \in {"dropdb", "createdb", "pg_restore"})
    => call[c].snapshot = "ok"

--------------------------------------------------------------------------
(* Properties of UsersService, under SpecUsers.  A call that only reads    *)
(* leaves the table as it found it, so the state in which userCall shows   *)
(* its outcome is the state it ran in.                                     *)

\* The user who goes by username is an administrator.
IsAdministrator(username) ==
  \E id \in Stored :
    /\ ILike(Row(id).username, username)
    /\ Row(id).role = "ADMIN"
    /\ ~Row(id).deleted

\* C11: with authentication enabled, checkIfUsernameMatchesIdOrIsAdmin
\* returns true only if the requesting username is, but for case, the name
\* of the user with id userId, or the requester is an administrator; and a
\* requester who is neither gets ForbiddenException, whatever the role of
\* the user with id userId.
C11_OnlyOwnerOrAdminPasses ==
  (/\ userCall.op = "checkIfUsernameMatchesIdOrIsAdmin"
   /\ ~authenticationDisabled
   /\ userCall.username # Undefined
   /\ getByIdOrFail(userCall.id, FALSE)
   /\ ~ILike(Row(userCall.id).username, userCall.username)
   /\ ~IsAdministrator(userCall.username))
  => userCall.outcome = "ForbiddenException"

\* An existing user has, but for case, the username or the email of a dto.
Collides(username, email) ==
  \E id \in Stored :
    /\ ~Row(id).deleted
    /\ ILike(Row(id).username, username) \/ ILike(Row(id).email, email)

\* No two stored users share a username or an email but for case.
NoTwoUsersAlike ==
  \A i, j \in Stored :
    i # j => /\ ~ILike(Row(i).username, Row(j).username)
             /\ ~ILike(Row(i).email, Row(j).email)

\* A register call that meets a user with the same username or the same
\* email, or both, ends with ForbiddenException.
RegisterRefusesDuplicates ==
  (userCall'.op = "register" /\ Collides(userCall'.username, userCall'.email))
  => userCall'.outcome = "ForbiddenException"

\* C12: register throws ForbiddenException whenever an existing user has
\* the username or the email of the dto but for case, be it one of the two
\* or both; so no two stored users ever share a username or an email but
\* for case.
C12_RegisterKeepsUsersDistinct ==
  []NoTwoUsersAlike /\ [][RegisterRefusesDuplicates]_vars

\* The row a login call found and worked on.
LoginUser == Row(userCall.id)

\* The last call was a login that found a user going by the name it gave.
LoginFound ==
  /\ userCall.op = "login"
  /\ userCall.id \in Stored
  /\ ILike(LoginUser.username, userCall.username)

\* What login's errors stand for: UnauthorizedException for an unknown name
\* or a wrong password, NotFoundException for a deleted user.
LoginErrors ==
  /\ userCall.outcome = "UnauthorizedException" =>
       \/ userCall.id = 0 /\ \A id \in Stored :
                               ~ILike(Row(id).username, userCall.username)
       \/ LoginFound /\ ~compareSync(userCall.password, LoginUser.password)
  /\ userCall.outcome = "NotFoundException" =>
       /\ LoginFound
       /\ compareSync(userCall.password, LoginUser.password)
       /\ LoginUser.deleted

PrivilegesChange(id) ==
  \/ Row(id).activated # userRepository'[id].activated
  \/ Row(id).role # userRepository'[id].role

\* C21: an update called with admin = false leaves the role and the
\* activated flag of every stored user as they were, whatever the dto
\* carries.  The two change only by an update with admin = true on that
\* user, or by setAdmin on a user who goes by the configured admin name;
\* and register stores an administrator only under that name, and an
\* activated user only under that name or with account activation
\* disabled.
C21_PrivilegesChangeOnlyByAdmin ==
  [][ /\ \A id \in Stored :
           PrivilegesChange(id) =>
             /\ userCall'.op \in {"update", "setAdmin"}
             /\ userCall'.admin
             /\ userCall'.id = id
             /\ userCall'.outcome = "returned"
             /\ userCall'.op = "setAdmin" =>
                  ILike(Row(id).username, ADMIN_USERNAME)
      /\ \A id \in DOMAIN userRepository' \ Stored :
           /\ userCall'.op = "register"
           /\ userRepository'[id].role = "ADMIN" =>
                userRepository'[id].username = ADMIN_USERNAME
           /\ userRepository'[id].activated =>
                \/ accountActivationDisabled
                \/ userRepository'[id].username = ADMIN_USERNAME ]_vars

\* C21's case: an update with admin = false whose dto asked for the role
\* ADMIN and for activation has been saved, and the user is still a
\* USER who is not activated.
C21_Witness ==
  /\ userCall.op = "update"
  /\ ~userCall.admin
  /\ userCall.outcome = "returned"
  /\ userCall.role = "ADMIN"
  /\ userCall.activated = "true"
  /\ Row(userCall.id).role = "USER"
  /\ ~Row(userCall.id).activated

==========================================================================
